---- MODULE Spec2Model ----
(***************************************************************************)
(* Model of package config of conduit-connector-materialize               *)
(* (src/config/config.go): Parse projects a map[string]string into a      *)
(* Config{URL, Table, Key} and Config.Validate checks it with the struct  *)
(* tags `required,url` / `max=63` / `max=63`, translating every field     *)
(* error with the registered English templates and collecting the         *)
(* messages with multierr.Append.                                         *)
(*                                                                         *)
(* Go strings are TLA+ strings (Len, SubSeq and \o act on them            *)
(* character by character).  An error value is the sequence of its        *)
(* messages: <<>> is nil, a one-element sequence is a plain error, a      *)
(* longer one is a multierr aggregate.                                    *)
(***************************************************************************)
EXTENDS Integers, Sequences, FiniteSets, TLC

VARIABLES
    maps,             \* heap of raw map[string]string values, by reference
    putOrder,         \* per map: the keys in the order the caller inserted them
    pc,               \* per caller: position in Parse / Validate
    cfg,              \* per caller: the map reference passed to Parse (0: none)
    config,           \* per caller: Parse's local `config`
    translations,     \* per frame: the translator's table, tag -> template
    registered,       \* per frame: tags with a translation registered in `validate`
    validationErrors, \* per frame: the field errors validate.Struct returned
    idx,              \* per frame: position of the range loop of lines 68-72
    resultErr,        \* per frame: the accumulator `resultErr`
    err,              \* per caller: what Validate returned
    ret,              \* per caller: what Parse returned, [config, err]
    history           \* per caller: the results of the earlier calls

vars == <<maps, putOrder, pc, cfg, config, translations, registered,
          validationErrors, idx, resultErr, err, ret, history>>

----------------------------------------------------------------------------
(* Bounds of the model *)

\* longest table / key value the callers try
MaxFieldLen == 70
\* calls one caller makes, one after the other, on its map
MaxCalls == 2
\* callers running Parse at the same time (ConcSpec)
NumCallers == 2

----------------------------------------------------------------------------
(* Strings *)

CharAt(s, i) == SubSeq(s, i, i)

RECURSIVE Rep(_, _)
Rep(c, n) == IF n <= 0 THEN "" ELSE c \o Rep(c, n - 1)

\* strings.Index with a one-character needle; 0 when absent
IndexOf(s, c) ==
    IF \E i \in 1..Len(s) : CharAt(s, i) = c
    THEN CHOOSE i \in 1..Len(s) :
            /\ CharAt(s, i) = c
            /\ \A j \in 1..(i - 1) : CharAt(s, j) # c
    ELSE 0

\* strings.LastIndex with a one-character needle; 0 when absent
LastIndexOf(s, c) ==
    IF \E i \in 1..Len(s) : CharAt(s, i) = c
    THEN CHOOSE i \in 1..Len(s) :
            /\ CharAt(s, i) = c
            /\ \A j \in (i + 1)..Len(s) : CharAt(s, j) # c
    ELSE 0

HasPrefix(s, p) == Len(s) >= Len(p) /\ SubSeq(s, 1, Len(p)) = p

\* strings.Contains
Contains(s, sub) ==
    \E i \in 1..(Len(s) - Len(sub) + 1) : SubSeq(s, i, i + Len(sub) - 1) = sub

\* position of the first occurrence of sub in s; 0 when absent
Find(s, sub) ==
    IF Contains(s, sub)
    THEN CHOOSE i \in 1..(Len(s) - Len(sub) + 1) :
            /\ SubSeq(s, i, i + Len(sub) - 1) = sub
            /\ \A j \in 1..(i - 1) : SubSeq(s, j, j + Len(sub) - 1) # sub
    ELSE 0

UpperLetters == "ABCDEFGHIJKLMNOPQRSTUVWXYZ"
LowerLetters == "abcdefghijklmnopqrstuvwxyz"
DigitChars == "0123456789"

InChars(c, set) == \E i \in 1..Len(set) : CharAt(set, i) = c

ToLowerChar(c) ==
    LET i == IndexOf(UpperLetters, c)
    IN  IF i > 0 THEN CharAt(LowerLetters, i) ELSE c

\* strings.ToLower, lines 87, 98, 109
RECURSIVE ToLower(_)
ToLower(s) ==
    IF s = "" THEN ""
    ELSE ToLowerChar(CharAt(s, 1)) \o ToLower(SubSeq(s, 2, Len(s)))

----------------------------------------------------------------------------
(* The `url` tag of Config.URL (line 38).  validator/v10 implements it as  *)
(* isURL: cut the value at the first '#', reject the empty string, then    *)
(* require net/url.ParseRequestURI to succeed with a non-empty scheme.     *)
(* The operators below follow net/url for the characters the model's       *)
(* inputs use; percent escapes and control bytes are outside that          *)
(* alphabet.                                                               *)

NoScheme(s) == [ok |-> TRUE, scheme |-> "", rest |-> s]

\* net/url getScheme: letters, then letters / digits / "+-." up to a ':'
RECURSIVE ScanScheme(_, _)
ScanScheme(s, i) ==
    IF i > Len(s) THEN NoScheme(s)
    ELSE LET c == CharAt(s, i)
         IN  IF InChars(c, UpperLetters) \/ InChars(c, LowerLetters)
             THEN ScanScheme(s, i + 1)
             ELSE IF InChars(c, DigitChars) \/ InChars(c, "+-.")
             THEN IF i = 1 THEN NoScheme(s) ELSE ScanScheme(s, i + 1)
             ELSE IF c = ":"
             THEN IF i = 1
                  THEN [ok |-> FALSE, scheme |-> "", rest |-> s]
                  ELSE [ok |-> TRUE, scheme |-> SubSeq(s, 1, i - 1),
                        rest |-> SubSeq(s, i + 1, Len(s))]
             ELSE NoScheme(s)

getScheme(s) == ScanScheme(s, 1)

AllCharsIn(s, set) == \A i \in 1..Len(s) : InChars(CharAt(s, i), set)

\* net/url validOptionalPort: "" or ':' followed by digits only
validOptionalPort(port) ==
    \/ port = ""
    \/ /\ CharAt(port, 1) = ":"
       /\ AllCharsIn(SubSeq(port, 2, Len(port)), DigitChars)

\* characters net/url leaves unescaped in a host
HostChars == UpperLetters \o LowerLetters \o DigitChars
               \o "-_.~!$&'()*+,;=:[]<>\""

\* characters net/url validUserinfo accepts
UserinfoChars == UpperLetters \o LowerLetters \o DigitChars
                   \o "-._:~!$&'()*+,;=%@"

\* net/url parseHost
parseHost(host) ==
    /\ IF HasPrefix(host, "[")
       THEN LET i == LastIndexOf(host, "]")
            IN  i > 0 /\ validOptionalPort(SubSeq(host, i + 1, Len(host)))
       ELSE LET i == LastIndexOf(host, ":")
            IN  i > 0 => validOptionalPort(SubSeq(host, i, Len(host)))
    /\ AllCharsIn(host, HostChars)

\* net/url parseAuthority
parseAuthority(authority) ==
    LET i == LastIndexOf(authority, "@")
    IN  IF i = 0 THEN parseHost(authority)
        ELSE /\ parseHost(SubSeq(authority, i + 1, Len(authority)))
             /\ AllCharsIn(SubSeq(authority, 1, i - 1), UserinfoChars)

\* net/url ParseRequestURI: [ok, scheme]
ParseRequestURI(rawURL) ==
    LET g      == getScheme(rawURL)
        q      == IndexOf(g.rest, "?")
        rest   == IF q > 0 THEN SubSeq(g.rest, 1, q - 1) ELSE g.rest
        afterS == SubSeq(rest, 3, Len(rest))
        slash  == IndexOf(afterS, "/")
        auth   == IF slash > 0 THEN SubSeq(afterS, 1, slash - 1) ELSE afterS
    IN  IF rawURL = "" THEN [ok |-> FALSE, scheme |-> ""]
        ELSE IF rawURL = "*" THEN [ok |-> TRUE, scheme |-> ""]
        ELSE IF ~g.ok THEN [ok |-> FALSE, scheme |-> ""]
        ELSE IF ~HasPrefix(rest, "/")
        THEN [ok |-> g.scheme # "", scheme |-> g.scheme]
        ELSE IF g.scheme # "" /\ HasPrefix(rest, "//")
        THEN [ok |-> parseAuthority(auth), scheme |-> g.scheme]
        ELSE [ok |-> TRUE, scheme |-> g.scheme]

\* the `url` tag
IsURL(value) ==
    LET i == IndexOf(value, "#")
        s == IF i > 0 THEN SubSeq(value, 1, i - 1) ELSE value
        u == ParseRequestURI(s)
    IN  s # "" /\ u.ok /\ u.scheme # ""

----------------------------------------------------------------------------
(* Config and its validation tags, lines 37-43 *)

\* the identifier limit of `max=63`
MaxIdentLen == 63

\* the struct fields in declaration order, each with its tags in tag order
ConfigFields ==
    << [field |-> "URL",   tags |-> <<"required", "url">>],
       [field |-> "Table", tags |-> <<"max">>],
       [field |-> "Key",   tags |-> <<"max">>] >>

\* the zero value Config{}
ZeroConfig == [URL |-> "", Table |-> "", Key |-> ""]

\* a `max` that excludes the limit itself
TagHoldsExclusiveMax(tag, value) ==
    CASE tag = "required" -> value # ""
      [] tag = "url"      -> IsURL(value)
      [] tag = "max"      -> Len(value) < MaxIdentLen

\* one validation tag applied to one string value
TagHolds(tag, value) ==
    CASE tag = "required" -> value # ""
      [] tag = "url"      -> IsURL(value)
      [] tag = "max"      -> Len(value) <= MaxIdentLen

\* a field that reports every tag that fails
FieldErrorsAllTags(f, value) ==
    LET G[i \in 0..Len(f.tags)] ==
          IF i = 0 THEN <<>>
          ELSE IF TagHolds(f.tags[i], value) THEN G[i - 1]
          ELSE Append(G[i - 1], [field |-> f.field, tag |-> f.tags[i]])
    IN  G[Len(f.tags)]

\* the tags of one field run in order and stop at the first that fails:
\* the field error of that tag, or none
FieldErrors(f, value) ==
    LET failing == { i \in 1..Len(f.tags) : ~TagHolds(f.tags[i], value) }
        first   == CHOOSE i \in failing : \A j \in failing : i <= j
    IN  IF failing = {} THEN <<>>
        ELSE << [field |-> f.field, tag |-> f.tags[first]] >>

\* a Struct that returns at the first field in error
StructFirstOnly(c) ==
    LET all == FieldErrors(ConfigFields[1], c.URL)
                 \o FieldErrors(ConfigFields[2], c.Table)
                 \o FieldErrors(ConfigFields[3], c.Key)
    IN  IF all = <<>> THEN all ELSE << Head(all) >>

\* a Struct that leaves Key unchecked
StructWithoutKey(c) ==
    FieldErrors(ConfigFields[1], c.URL)
      \o FieldErrors(ConfigFields[2], c.Table)

\* validate.Struct(c), line 65: the field errors in field order
Struct(c) ==
    FieldErrors(ConfigFields[1], c.URL)
      \o FieldErrors(ConfigFields[2], c.Table)
      \o FieldErrors(ConfigFields[3], c.Key)

----------------------------------------------------------------------------
(* Translations, lines 81-116, and the error values *)

\* the error value nil
Nil == <<>>

\* errors.New(text)
NewError(text) == << text >>

\* an Append that puts the new error first
MultiPrepend(left, right) == right \o left

\* multierr.Append(left, right)
MultiAppend(left, right) == left \o right

\* Error() of an error value: multierr joins the messages with "; "
RECURSIVE ErrorText(_)
ErrorText(e) ==
    IF Len(e) = 0 THEN ""
    ELSE IF Len(e) = 1 THEN e[1]
    ELSE e[1] \o "; " \o ErrorText(Tail(e))

\* a translator's empty table
EmptyTable == [tag \in {} |-> ""]

\* the locales ut.New(translator, translator) of line 49 holds
Locales == { "en" }

\* the templates registered at lines 84, 95 and 106, in that order
Templates ==
    << [tag |-> "required", text |-> "\"{0}\" config value must be set"],
       [tag |-> "url",      text |-> "\"{0}\" config value must be a valid url"],
       [tag |-> "max",      text |-> "\"{0}\" config value is too long"] >>

\* ut.Add(key, text, override = true) followed by the validator's record of
\* the translation function: [table, tags, err]
RegisterTranslation(st, tag, text, override) ==
    IF st.err # Nil THEN st
    ELSE IF tag \in DOMAIN st.table /\ ~override
    THEN [st EXCEPT !.err = NewError("translation already exists")]
    ELSE [table |-> (tag :> text) @@ st.table,
          tags  |-> st.tags \cup {tag},
          err   |-> Nil]

\* registerTranslations, lines 81-116: the three registrations in order,
\* returning at the first error
registerTranslations(table, tags) ==
    LET s0 == [table |-> table, tags |-> tags, err |-> Nil]
        s1 == RegisterTranslation(s0, Templates[1].tag, Templates[1].text, TRUE)
        s2 == RegisterTranslation(s1, Templates[2].tag, Templates[2].text, TRUE)
        s3 == RegisterTranslation(s2, Templates[3].tag, Templates[3].text, TRUE)
    IN  s3

\* the template with every "{0}" replaced by param
RECURSIVE Substitute(_, _)
Substitute(text, param) ==
    LET i == Find(text, "{0}")
    IN  IF i = 0 THEN text
        ELSE SubSeq(text, 1, i - 1) \o param
               \o Substitute(SubSeq(text, i + 3, Len(text)), param)

\* ut.T(key, param); the error of an unknown key is dropped (`t, _ :=`)
T(table, key, param) ==
    IF key \in DOMAIN table THEN Substitute(table[key], param) ELSE ""

\* FieldError.Error(), the text of a field error with no translation
DefaultText(fe) ==
    "Key: 'Config." \o fe.field \o "' Error:Field validation for '"
      \o fe.field \o "' failed on the '" \o fe.tag \o "' tag"

\* translation functions without strings.ToLower
TranslateNoLower(fe, table, tags) ==
    IF fe.tag \in tags THEN T(table, fe.tag, fe.field)
    ELSE DefaultText(fe)

\* validationError.Translate(uniTranslator), line 70, with the translation
\* functions of lines 85-88, 96-99 and 107-110
Translate(fe, table, tags) ==
    IF fe.tag \in tags THEN ToLower(T(table, fe.tag, fe.field))
    ELSE DefaultText(fe)

----------------------------------------------------------------------------
(* Parse's reading of the raw map, lines 27-34 and 119-124 *)

ConfigKeyURL == "url"
ConfigKeyTable == "table"
ConfigKeyKey == "key"

\* a key Parse does not know
OtherKey == "other"

EmptyMap == [k \in {} |-> ""]

\* a lookup that tells an absent key from an empty value
LookupAbsentMarked(m, key) == IF key \in DOMAIN m THEN m[key] ELSE "<nil>"

\* cfg[key] on a Go map: the zero value "" for an absent key
Lookup(m, key) == IF key \in DOMAIN m THEN m[key] ELSE ""

\* strings.TrimSpace on the blanks the inputs hold
RECURSIVE TrimSpace(_)
TrimSpace(s) ==
    IF s = "" THEN s
    ELSE IF CharAt(s, 1) = " " THEN TrimSpace(SubSeq(s, 2, Len(s)))
    ELSE IF CharAt(s, Len(s)) = " " THEN TrimSpace(SubSeq(s, 1, Len(s) - 1))
    ELSE s

\* a Parse that trims the values it reads
ProjectTrimmed(m) ==
    [URL   |-> TrimSpace(Lookup(m, ConfigKeyURL)),
     Table |-> TrimSpace(Lookup(m, ConfigKeyTable)),
     Key   |-> TrimSpace(Lookup(m, ConfigKeyKey))]

\* the composite literal of lines 120-124
Project(m) ==
    [URL   |-> Lookup(m, ConfigKeyURL),
     Table |-> Lookup(m, ConfigKeyTable),
     Key   |-> Lookup(m, ConfigKeyKey)]

\* a Parse that hands back the Config it built along with the error
ParseResultPartial(c, e) == [config |-> c, err |-> e]

\* Parse's return values, lines 126-130
ParseResult(c, e) ==
    IF e # Nil THEN [config |-> ZeroConfig, err |-> e]
    ELSE [config |-> c, err |-> Nil]

----------------------------------------------------------------------------
(* The callers' inputs *)

UrlValues ==
    { "",
      "not a url",
      "https://materialize.example.com",
      "postgres://materialize@localhost:6875/materialize",
      " http://localhost",
      "http://localhost/a " }

TableValues ==
    { "", "t1", " t1 ",
      Rep("a", MaxIdentLen), Rep("a", MaxIdentLen + 1), Rep("a", MaxFieldLen) }

KeyValues ==
    { "", "k1", Rep("k", MaxIdentLen), Rep("k", MaxIdentLen + 1) }

PutValues(k) ==
    IF k = ConfigKeyURL THEN UrlValues
    ELSE IF k = ConfigKeyTable THEN TableValues
    ELSE IF k = ConfigKeyKey THEN KeyValues
    ELSE { "x" }

Keys == { ConfigKeyURL, ConfigKeyTable, ConfigKeyKey, OtherKey }

----------------------------------------------------------------------------
(* The state machine *)

\* the locals of Validate kept in package-level variables
SharedFrame(p) == 1

\* the activation record of caller p's call: the locals of Validate
\* (translator, uni, uniTranslator, validate, validationErrors, resultErr)
\* are created by the call itself
Frame(p) == p

Callers == DOMAIN pc

InitOf(n, heap, orders) ==
    /\ maps = heap
    /\ putOrder = orders
    /\ pc = [p \in 1..n |-> "idle"]
    /\ cfg = [p \in 1..n |-> 0]
    /\ config = [p \in 1..n |-> ZeroConfig]
    /\ translations = [f \in 1..n |-> EmptyTable]
    /\ registered = [f \in 1..n |-> {}]
    /\ validationErrors = [f \in 1..n |-> <<>>]
    /\ idx = [f \in 1..n |-> 0]
    /\ resultErr = [f \in 1..n |-> Nil]
    /\ err = [p \in 1..n |-> Nil]
    /\ ret = [p \in 1..n |-> [config |-> ZeroConfig, err |-> Nil]]
    /\ history = [p \in 1..n |-> <<>>]

\* one caller whose map is still empty
Init == InitOf(1, <<EmptyMap>>, << <<>> >>)

\* the caller inserts cfg[k] = v before it hands the map to Parse
Put(m, k, v) ==
    /\ \A p \in Callers : pc[p] = "idle" /\ history[p] = <<>>
    /\ k \notin DOMAIN maps[m]
    /\ maps' = [maps EXCEPT ![m] = (k :> v) @@ @]
    /\ putOrder' = [putOrder EXCEPT ![m] = Append(@, k)]
    /\ UNCHANGED <<pc, cfg, config, translations, registered,
                   validationErrors, idx, resultErr, err, ret, history>>

\* Parse is called with map m and builds config, lines 119-124
Parse(p, m) ==
    /\ pc[p] = "idle"
    /\ cfg' = [cfg EXCEPT ![p] = m]
    /\ config' = [config EXCEPT ![p] = Project(maps[m])]
    /\ pc' = [pc EXCEPT ![p] = "validate"]
    /\ UNCHANGED <<maps, putOrder, translations, registered,
                   validationErrors, idx, resultErr, err, ret, history>>

\* Validate creates the translators and looks up "en", lines 48-54
GetTranslator(p) ==
    /\ pc[p] = "validate"
    /\ translations' = [translations EXCEPT ![Frame(p)] = EmptyTable]
    /\ IF "en" \in Locales
       THEN /\ pc' = [pc EXCEPT ![p] = "register"]
            /\ err' = err
       ELSE /\ pc' = [pc EXCEPT ![p] = "parseReturn"]
            /\ err' = [err EXCEPT ![p] = NewError("translator not found")]
    /\ UNCHANGED <<maps, putOrder, cfg, config, registered,
                   validationErrors, idx, resultErr, ret, history>>

\* validator.New() and registerTranslations, lines 57-62
Register(p) ==
    /\ pc[p] = "register"
    /\ LET r == registerTranslations(translations[Frame(p)], {})
       IN  /\ translations' = [translations EXCEPT ![Frame(p)] = r.table]
           /\ registered' = [registered EXCEPT ![Frame(p)] = r.tags]
           /\ IF r.err # Nil
              THEN /\ pc' = [pc EXCEPT ![p] = "parseReturn"]
                   /\ err' = [err EXCEPT ![p] = r.err]
              ELSE /\ pc' = [pc EXCEPT ![p] = "struct"]
                   /\ err' = err
    /\ UNCHANGED <<maps, putOrder, cfg, config,
                   validationErrors, idx, resultErr, ret, history>>

\* validate.Struct(c) and the branch on its result, lines 65-67 and 77
ValidateStruct(p) ==
    /\ pc[p] = "struct"
    /\ LET errs == Struct(config[p])
       IN  /\ validationErrors' = [validationErrors EXCEPT ![Frame(p)] = errs]
           /\ IF errs = <<>>
              THEN /\ pc' = [pc EXCEPT ![p] = "parseReturn"]
                   /\ err' = [err EXCEPT ![p] = Nil]
                   /\ UNCHANGED <<resultErr, idx>>
              ELSE /\ pc' = [pc EXCEPT ![p] = "loop"]
                   /\ resultErr' = [resultErr EXCEPT ![Frame(p)] = Nil]
                   /\ idx' = [idx EXCEPT ![Frame(p)] = 1]
                   /\ err' = err
    /\ UNCHANGED <<maps, putOrder, cfg, config, translations, registered,
                   ret, history>>

\* one iteration of the range loop, lines 68-72
Collect(p) ==
    /\ pc[p] = "loop"
    /\ idx[Frame(p)] <= Len(validationErrors[Frame(p)])
    /\ resultErr' = [resultErr EXCEPT ![Frame(p)] =
          MultiAppend(@, NewError(Translate(
              validationErrors[Frame(p)][idx[Frame(p)]],
              translations[Frame(p)], registered[Frame(p)])))]
    /\ idx' = [idx EXCEPT ![Frame(p)] = @ + 1]
    /\ UNCHANGED <<maps, putOrder, pc, cfg, config, translations, registered,
                   validationErrors, err, ret, history>>

\* the loop is over: return resultErr, line 74
ReturnResultErr(p) ==
    /\ pc[p] = "loop"
    /\ idx[Frame(p)] > Len(validationErrors[Frame(p)])
    /\ err' = [err EXCEPT ![p] = resultErr[Frame(p)]]
    /\ pc' = [pc EXCEPT ![p] = "parseReturn"]
    /\ UNCHANGED <<maps, putOrder, cfg, config, translations, registered,
                   validationErrors, idx, resultErr, ret, history>>

\* Parse returns, lines 126-130
ParseReturn(p) ==
    /\ pc[p] = "parseReturn"
    /\ ret' = [ret EXCEPT ![p] = ParseResult(config[p], err[p])]
    /\ pc' = [pc EXCEPT ![p] = "done"]
    /\ UNCHANGED <<maps, putOrder, cfg, config, translations, registered,
                   validationErrors, idx, resultErr, err, history>>

\* the caller keeps the result and is ready to call Parse again
CallAgain(p) ==
    /\ pc[p] = "done"
    /\ Len(history[p]) + 1 < MaxCalls
    /\ history' = [history EXCEPT ![p] = Append(@, ret[p])]
    /\ pc' = [pc EXCEPT ![p] = "idle"]
    /\ UNCHANGED <<maps, putOrder, cfg, config, translations, registered,
                   validationErrors, idx, resultErr, err, ret>>

Step(p) ==
    \/ GetTranslator(p)
    \/ Register(p)
    \/ ValidateStruct(p)
    \/ Collect(p)
    \/ ReturnResultErr(p)
    \/ ParseReturn(p)

Next ==
    \/ \E m \in DOMAIN maps, k \in Keys : \E v \in PutValues(k) : Put(m, k, v)
    \/ \E p \in Callers, m \in DOMAIN maps : Parse(p, m)
    \/ \E p \in Callers : Step(p)
    \/ \E p \in Callers : CallAgain(p)

Spec == Init /\ [][Next]_vars

----------------------------------------------------------------------------
(* Concurrent callers: each starts Parse once, on any of the maps below,   *)
(* and the calls interleave statement by statement.                        *)

ValidMap ==
    (ConfigKeyURL :> "https://materialize.example.com")
      @@ (ConfigKeyTable :> "t1") @@ (ConfigKeyKey :> "k1")

ConcMaps ==
    << EmptyMap,
       (ConfigKeyURL :> "") @@ (ConfigKeyTable :> "") @@ (ConfigKeyKey :> "")
         @@ (OtherKey :> "x"),
       ValidMap,
       ValidMap @@ (OtherKey :> "x"),
       (ConfigKeyURL :> "not a url")
         @@ (ConfigKeyTable :> Rep("a", MaxIdentLen + 1)),
       (ConfigKeyTable :> Rep("a", MaxFieldLen))
         @@ (ConfigKeyKey :> Rep("k", MaxIdentLen + 1)) >>

ConcOrders ==
    << <<>>,
       <<ConfigKeyURL, ConfigKeyTable, ConfigKeyKey, OtherKey>>,
       <<ConfigKeyURL, ConfigKeyTable, ConfigKeyKey>>,
       <<OtherKey, ConfigKeyKey, ConfigKeyTable, ConfigKeyURL>>,
       <<ConfigKeyTable, ConfigKeyURL>>,
       <<ConfigKeyKey, ConfigKeyTable>> >>

ConcInit == InitOf(NumCallers, ConcMaps, ConcOrders)

ConcNext ==
    \/ \E p \in Callers, m \in DOMAIN maps : Parse(p, m)
    \/ \E p \in Callers : Step(p)

ConcSpec == ConcInit /\ [][ConcNext]_vars

----------------------------------------------------------------------------
(* Validate and Parse as one uninterrupted evaluation: what a call returns *)
(* when nothing else runs.                                                 *)

RECURSIVE TranslateAll(_, _, _)
TranslateAll(errs, table, tags) ==
    IF errs = <<>> THEN Nil
    ELSE MultiAppend(NewError(Translate(Head(errs), table, tags)),
                     TranslateAll(Tail(errs), table, tags))

\* Config.Validate, lines 46-78
ValidateAlone(c) ==
    LET r == registerTranslations(EmptyTable, {})
    IN  IF "en" \notin Locales THEN NewError("translator not found")
        ELSE IF r.err # Nil THEN r.err
        ELSE TranslateAll(Struct(c), r.table, r.tags)

\* Parse, lines 119-131
ParseAlone(m) == ParseResult(Project(m), ValidateAlone(Project(m)))

----------------------------------------------------------------------------
(* Vocabulary of the properties *)

Done(p) == pc[p] = "done"

\* the value the raw map gives a key, "" standing for an absent key
ValueOf(m, k) == IF k \in DOMAIN m THEN m[k] ELSE ""

RawIn(p) == maps[cfg[p]]
RawURL(p) == ValueOf(RawIn(p), "url")
RawTable(p) == ValueOf(RawIn(p), "table")
RawKey(p) == ValueOf(RawIn(p), "key")

\* the messages as the code renders them: the field name in double quotes
UrlRequiredMsg == "\"url\" config value must be set"
UrlInvalidMsg == "\"url\" config value must be a valid url"
TableTooLongMsg == "\"table\" config value is too long"
KeyTooLongMsg == "\"key\" config value is too long"

\* the messages with the bare field name
BareUrlRequiredMsg == "url config value must be set"
BareUrlInvalidMsg == "url config value must be a valid url"
BareTableTooLongMsg == "table config value is too long"
BareKeyTooLongMsg == "key config value is too long"

\* the four rules, by name
UrlMissing(c) == c.URL = ""
UrlMalformed(c) == c.URL # "" /\ ~IsURL(c.URL)
TableTooLong(c) == Len(c.Table) > 63
KeyTooLong(c) == Len(c.Key) > 63

ViolatedRules(c) ==
    { r \in {"url required", "url valid", "table max", "key max"} :
        \/ r = "url required" /\ UrlMissing(c)
        \/ r = "url valid" /\ UrlMalformed(c)
        \/ r = "table max" /\ TableTooLong(c)
        \/ r = "key max" /\ KeyTooLong(c) }

\* the Config the raw map of p's call stands for
RawConfig(p) == [URL |-> RawURL(p), Table |-> RawTable(p), Key |-> RawKey(p)]

Text(p) == ErrorText(ret[p].err)

----------------------------------------------------------------------------
(* C1 *)

C1_Valid(p) ==
    /\ Done(p)
    /\ RawURL(p) # "" /\ IsURL(RawURL(p))
    /\ Len(RawTable(p)) <= 63 /\ Len(RawKey(p)) <= 63

\* C1 as stated: for a raw map with a valid non-empty url and table and key
\* of at most 63 characters, Parse returns no error and a Config holding the
\* trimmed raw values.
C1_ParseReturnsTrimmedValues ==
    \A p \in Callers : C1_Valid(p) =>
        /\ ret[p].err = Nil
        /\ ret[p].config = [URL   |-> TrimSpace(RawURL(p)),
                            Table |-> TrimSpace(RawTable(p)),
                            Key   |-> TrimSpace(RawKey(p))]

\* C1 amended: for such a raw map Parse returns no error and a Config whose
\* fields are the raw values of url, table and key exactly as given, leading
\* and trailing blanks included.
C1_ParseReturnsRawValues ==
    \A p \in Callers : C1_Valid(p) =>
        /\ ret[p].err = Nil
        /\ ret[p].config = RawConfig(p)

C1_Witness ==
    \E p \in Callers :
        /\ C1_Valid(p)
        /\ RawURL(p) = "http://localhost/a "
        /\ RawTable(p) = " t1 "
        /\ ret[p].config.Table = " t1 "

----------------------------------------------------------------------------
(* C2 *)

\* C2: Validate returns nil exactly when the Config breaks none of the four
\* rules, one error value otherwise, and Parse fails exactly when Validate of
\* the projected Config fails, handing on that error.
C2_ValidateIffNoRuleViolated ==
    \A p \in Callers :
        /\ pc[p] \in {"parseReturn", "done"} =>
              /\ config[p] = RawConfig(p)
              /\ err[p] = Nil <=> ViolatedRules(config[p]) = {}
        /\ Done(p) =>
              /\ ret[p].err # Nil <=> err[p] # Nil
              /\ ret[p].err = err[p]

C2_Witness ==
    \E p \in Callers :
        /\ Done(p)
        /\ ViolatedRules(config[p]) = {"url valid", "key max"}
        /\ ret[p].err # Nil

----------------------------------------------------------------------------
(* C3 *)

\* C3 as stated: every message is `<field> config value <reason>` with the
\* bare lower-case field name, and a raw map without url, or with url = "",
\* fails with a text containing `url config value must be set`.
C3_BareFieldMessages ==
    \A p \in Callers : Done(p) =>
        /\ \A i \in 1..Len(ret[p].err) :
              ret[p].err[i] \in {BareUrlRequiredMsg, BareUrlInvalidMsg,
                                 BareTableTooLongMsg, BareKeyTooLongMsg}
        /\ RawURL(p) = "" =>
              ret[p].err # Nil /\ Contains(Text(p), BareUrlRequiredMsg)

\* C3 amended: every message is `"<field>" config value <reason>`, the
\* lower-case field name in double quotes, with the reason of the rule that
\* failed, and a raw map without url, or with url = "", fails with a text
\* containing `"url" config value must be set`.
C3_QuotedFieldMessages ==
    \A p \in Callers : Done(p) =>
        /\ \A i \in 1..Len(ret[p].err) :
              \/ ret[p].err[i] = UrlRequiredMsg /\ UrlMissing(RawConfig(p))
              \/ ret[p].err[i] = UrlInvalidMsg /\ UrlMalformed(RawConfig(p))
              \/ ret[p].err[i] = TableTooLongMsg /\ TableTooLong(RawConfig(p))
              \/ ret[p].err[i] = KeyTooLongMsg /\ KeyTooLong(RawConfig(p))
        /\ RawURL(p) = "" =>
              ret[p].err # Nil /\ Contains(Text(p), UrlRequiredMsg)

C3_Witness ==
    \E p \in Callers :
        /\ Done(p)
        /\ "url" \notin DOMAIN RawIn(p)
        /\ Len(RawTable(p)) = 64
        /\ Text(p) = UrlRequiredMsg \o "; " \o TableTooLongMsg

----------------------------------------------------------------------------
(* C4 *)

\* C4: validation does not stop at the first field in error: the text of the
\* returned error contains the message of every field that breaks a rule.
C4_EveryViolatedFieldReported ==
    \A p \in Callers : Done(p) =>
        /\ UrlMissing(RawConfig(p)) => Contains(Text(p), UrlRequiredMsg)
        /\ UrlMalformed(RawConfig(p)) => Contains(Text(p), UrlInvalidMsg)
        /\ TableTooLong(RawConfig(p)) => Contains(Text(p), TableTooLongMsg)
        /\ KeyTooLong(RawConfig(p)) => Contains(Text(p), KeyTooLongMsg)

C4_Witness ==
    \E p \in Callers :
        /\ Done(p)
        /\ "url" \notin DOMAIN RawIn(p)
        /\ Len(RawTable(p)) > 64
        /\ Len(RawKey(p)) = 64
        /\ Len(ret[p].err) = 3

----------------------------------------------------------------------------
(* C5 *)

C5_OthersValid(p, value) ==
    Done(p) /\ IsURL(RawURL(p)) /\ Len(value) <= 63

\* C5 as stated: the limit on table and on key is 63 characters; 63 passes,
\* 64 or more fails with a text containing `table config value is too long`
\* (`key config value is too long`); an empty or absent value never fails.
C5_LimitWithBareMessages ==
    \A p \in Callers : Done(p) =>
        /\ C5_OthersValid(p, RawKey(p)) /\ Len(RawTable(p)) <= 63
              => ret[p].err = Nil
        /\ Len(RawTable(p)) >= 64 =>
              ret[p].err # Nil /\ Contains(Text(p), BareTableTooLongMsg)
        /\ Len(RawKey(p)) >= 64 =>
              ret[p].err # Nil /\ Contains(Text(p), BareKeyTooLongMsg)

\* C5 amended: the limit on table and on key is 63 characters; with the
\* other fields valid a value of up to 63 characters (the empty and the
\* absent one included) passes, and one of 64 or more fails with a text
\* containing `"table" config value is too long` (`"key" config value is too
\* long`), which no value of up to 63 characters produces.
C5_LimitIs63 ==
    \A p \in Callers : Done(p) =>
        /\ C5_OthersValid(p, RawKey(p)) /\ Len(RawTable(p)) <= 63
              => ret[p].err = Nil
        /\ Len(RawTable(p)) >= 64 <=> Contains(Text(p), TableTooLongMsg)
        /\ Len(RawKey(p)) >= 64 <=> Contains(Text(p), KeyTooLongMsg)
        /\ Len(RawTable(p)) >= 64 \/ Len(RawKey(p)) >= 64 => ret[p].err # Nil

C5_Witness ==
    \E p \in Callers :
        /\ C5_OthersValid(p, RawKey(p))
        /\ Len(RawKey(p)) = 63
        /\ Len(RawTable(p)) = 64
        /\ ret[p].err = << TableTooLongMsg >>

----------------------------------------------------------------------------
(* C6 *)

\* where the message of a field starts in the text; 0 when it has none
UrlAt(p) == Find(Text(p), "\"url\" config value")
TableAt(p) == Find(Text(p), "\"table\" config value")
KeyAt(p) == Find(Text(p), "\"key\" config value")

\* C6: in the text of the error the url message comes before the table
\* message and the table message before the key message, whatever the order
\* in which the caller inserted the keys, and a further call on the same map
\* returns what the earlier ones returned.
C6_MessagesInFieldOrder ==
    \A p \in Callers : Done(p) =>
        /\ UrlAt(p) > 0 /\ TableAt(p) > 0 => UrlAt(p) < TableAt(p)
        /\ TableAt(p) > 0 /\ KeyAt(p) > 0 => TableAt(p) < KeyAt(p)
        /\ UrlAt(p) > 0 /\ KeyAt(p) > 0 => UrlAt(p) < KeyAt(p)
        /\ \A i \in 1..Len(history[p]) : history[p][i] = ret[p]

C6_Witness ==
    \E p \in Callers :
        /\ Done(p)
        /\ putOrder[cfg[p]] = <<"key", "table", "url">>
        /\ Len(history[p]) = 1
        /\ 0 < UrlAt(p) /\ UrlAt(p) < TableAt(p) /\ TableAt(p) < KeyAt(p)

----------------------------------------------------------------------------
(* C7 *)

\* C7: when Parse returns an error the Config it returns is the zero value,
\* and when it returns a Config that is not the zero value the error is nil.
C7_NoPartialSuccess ==
    \A p \in Callers : Done(p) =>
        /\ ret[p].err # Nil => ret[p].config = ZeroConfig
        /\ ret[p].config # ZeroConfig => ret[p].err = Nil

C7_Witness ==
    \E p \in Callers :
        /\ Done(p)
        /\ RawTable(p) = "t1" /\ RawKey(p) = "k1"
        /\ ret[p].err = << UrlInvalidMsg >>
        /\ ret[p].config = ZeroConfig

----------------------------------------------------------------------------
(* C8 *)

SameRecognizedValues(m1, m2) ==
    \A k \in {"url", "table", "key"} : ValueOf(m1, k) = ValueOf(m2, k)

\* C8: two calls whose raw maps give url, table and key the same values, an
\* absent key counting as "", return the same Config and the same error,
\* whatever other keys the maps hold.
C8_OnlyRecognizedKeysMatter ==
    \A p, q \in Callers :
        Done(p) /\ Done(q) /\ SameRecognizedValues(RawIn(p), RawIn(q))
            => ret[p] = ret[q]

C8_Witness ==
    \E p, q \in Callers :
        /\ Done(p) /\ Done(q)
        /\ DOMAIN RawIn(p) = {}
        /\ DOMAIN RawIn(q) = {"url", "table", "key", "other"}
        /\ SameRecognizedValues(RawIn(p), RawIn(q))
        /\ ret[p] = ret[q]
        /\ ret[p].err = << UrlRequiredMsg >>

----------------------------------------------------------------------------
(* C9 *)

\* C9: calls that run at the same time do not disturb each other: under
\* every interleaving a call returns what it returns when it runs alone on
\* its map, and the maps and the Config handed to Validate stay as they were.
C9_CallsAreIndependent ==
    /\ maps = ConcMaps
    /\ \A p \in Callers :
          /\ pc[p] # "idle" => config[p] = Project(ConcMaps[cfg[p]])
          /\ Done(p) => ret[p] = ParseAlone(ConcMaps[cfg[p]])

C9_Witness ==
    \E p, q \in Callers :
        /\ Done(p) /\ Len(ret[p].err) = 3
        /\ pc[q] = "loop" /\ idx[Frame(q)] = 2
        /\ cfg[p] # cfg[q]

----------------------------------------------------------------------------
(* C10 *)

MessagesOf(p, prefix) ==
    { i \in 1..Len(ret[p].err) : HasPrefix(ret[p].err[i], prefix) }

C10_Structure(p) ==
    /\ ret[p].err # Nil => Len(ret[p].err) \in 1..3
    /\ Cardinality(MessagesOf(p, "\"url\" ")) <= 1
    /\ Cardinality(MessagesOf(p, "\"table\" ")) <= 1
    /\ Cardinality(MessagesOf(p, "\"key\" ")) <= 1
    /\ Cardinality(MessagesOf(p, "\"url\" ") \cup MessagesOf(p, "\"table\" ")
                     \cup MessagesOf(p, "\"key\" ")) = Len(ret[p].err)

HasMessage(p, msg) == \E i \in 1..Len(ret[p].err) : ret[p].err[i] = msg

\* C10 as stated: an empty url gives the Required message only, a non-empty
\* malformed url gives `url config value must be a valid url` only, and the
\* error holds one to three messages, at most one per field.
C10_ExclusiveWithBareMessage ==
    \A p \in Callers : Done(p) =>
        /\ UrlMissing(RawConfig(p)) =>
              /\ \E i \in 1..Len(ret[p].err) :
                    Contains(ret[p].err[i], "config value must be set")
              /\ ~HasMessage(p, BareUrlInvalidMsg)
        /\ UrlMalformed(RawConfig(p)) =>
              /\ HasMessage(p, BareUrlInvalidMsg)
              /\ \A i \in 1..Len(ret[p].err) :
                    ~Contains(ret[p].err[i], "config value must be set")
        /\ C10_Structure(p)

\* C10 amended: an empty url gives `"url" config value must be set` and no
\* InvalidURL message, a non-empty malformed url gives `"url" config value
\* must be a valid url` and no Required message, and the error holds one to
\* three messages, at most one per field.
C10_UrlRulesExclusive ==
    \A p \in Callers : Done(p) =>
        /\ UrlMissing(RawConfig(p)) =>
              /\ HasMessage(p, UrlRequiredMsg)
              /\ \A i \in 1..Len(ret[p].err) :
                    ~Contains(ret[p].err[i], "must be a valid url")
        /\ UrlMalformed(RawConfig(p)) =>
              /\ HasMessage(p, UrlInvalidMsg)
              /\ \A i \in 1..Len(ret[p].err) :
                    ~Contains(ret[p].err[i], "must be set")
        /\ C10_Structure(p)

C10_Witness ==
    \E p \in Callers :
        /\ Done(p)
        /\ RawURL(p) = "not a url"
        /\ Len(RawTable(p)) = 64 /\ Len(RawKey(p)) = 64
        /\ Len(ret[p].err) = 3
        /\ ret[p].err[1] = UrlInvalidMsg

====
